---- MODULE Spec2Model ----
(***************************************************************************)
(* Model of the dispatch pipeline of ServerDriver                          *)
(* (src/src/loggers/server-logger.ts): the listening endpoint started by   *)
(* serve(), route resolution in bunFetchHandler, the request/response      *)
(* branch handleWebRoute, the persistent-connection branch                 *)
(* handleWebSocketRoute, and the response builder json.                    *)
(*                                                                         *)
(* RouteDriver, MiddlewareDriver, AuthorizationDriver and the Logger base  *)
(* class are imported by the source but are not part of it; they are       *)
(* modelled from their contracts in spec.md (sections 4.1 - 4.3, 3).       *)
(***************************************************************************)
EXTENDS Integers, Sequences, FiniteSets, TLC

(* ---------------------------- bounds ----------------------------------- *)
MaxRegisterCalls == 3
MaxLinks == 2
MaxExchanges == 1
MaxLevel == 1
MaxBundleCalls == 2
MaxArrivals == 2

(* ---------------------------- values ----------------------------------- *)
Paths == {"/health", "/chat"}
Levels == 0..MaxLevel
WEB == "WEB"
WEB_SOCKET == "WEB_SOCKET"
RouteTypes == {WEB, WEB_SOCKET}
LinkKinds == {"gate", "allow", "deny"}

\* JavaScript's undefined: the value of a failed registry lookup and of a
\* function that returns nothing.
undefined == [type |-> "undefined"]

Routes == [path : Paths, type : RouteTypes, authLevel : Levels]
Requests == [url : Paths, upgrade : BOOLEAN, level : Levels]

VARIABLES
  routeRegistry,   \* RouteDriver: path -> Route, or undefined
  registerCalls,   \* the register calls made while the registry is built
                   \* (SpecRegistry): <<route, result>>, oldest first
  middlewares,     \* MiddlewareDriver: the links, in registration order
  serving,         \* TRUE once serve() has started the endpoint
  log,             \* the records appended through ServerLogger
  exchanges,       \* the exchanges handled so far, oldest first
  bundleCalls,     \* the calls made on json and getLogger, oldest first
  pending,         \* event loop: the exchanges accepted and not yet dispatched
  heap,            \* event loop: the Context objects allocated, by reference
  dispatches,      \* event loop: the dispatches that returned, oldest first
  blocked          \* event loop: TRUE while a dispatch has not returned

bundleVars == <<bundleCalls>>
loopVars == <<pending, heap, dispatches, blocked>>

vars == <<routeRegistry, registerCalls, middlewares, serving, log, exchanges,
          bundleVars, loopVars>>

(* ------------------------ Response Builder ----------------------------- *)
\* JSON.stringify of one member of a flat object with string values.
RECURSIVE stringifyMembers(_)
stringifyMembers(payload) ==
  IF payload = <<>> THEN ""
  ELSE LET m == "\"" \o Head(payload)[1] \o "\":\"" \o Head(payload)[2] \o "\""
       IN IF Len(payload) = 1 THEN m
          ELSE m \o "," \o stringifyMembers(Tail(payload))

\* JSON.stringify(payload); payload is the sequence of <<key, value>>
\* members of the object, in insertion order.
stringify(payload) == "{" \o stringifyMembers(payload) \o "}"

\* new Response(body, {headers, status})
Response(body, contentType, status) ==
  [status |-> status, contentType |-> contentType, body |-> body]

\* A response builder that leaves the status at the default.
json_DefaultStatus(payload, status) ==
  Response(stringify(payload), "application/json", 200)

json(payload, status) ==
  Response(stringify(payload), "application/json", status)

(* ------------------- the ServerDriver and its bundle ------------------- *)
\* new ServerLogger(commandLineDriver)
ServerLoggerObject == [componentName |-> "SERVER"]

\* The ServerDriver object: the field getLogger reads.
ServerDriverObject == [ServerLogger |-> ServerLoggerObject]

\* this.ServerDriverInterface = {json: this.json, getLogger: this.getLogger}:
\* an object holding the two functions, and nothing else.
ServerDriverInterface ==
  [json |-> [function |-> "json"], getLogger |-> [function |-> "getLogger"]]

\* obj.name in JavaScript: undefined when obj has no such property.
property(obj, name) == IF name \in DOMAIN obj THEN obj[name] ELSE undefined

\* getLogger() called with receiver this: return this.ServerLogger.
getLogger(this) == property(this, "ServerLogger")

\* The receivers getLogger is called with: driver.getLogger() and
\* context.ServerDriverInterface.getLogger().
receiverObject(name) ==
  IF name = "ServerDriver" THEN ServerDriverObject ELSE ServerDriverInterface

(* ----------------------------- Logger ---------------------------------- *)
info(message) == [component |-> "SERVER", level |-> "info", message |-> message]
error(message) == [component |-> "SERVER", level |-> "error", message |-> message]

(* -------------------------- Route Registry ----------------------------- *)
findInRouteRegistry(url) == routeRegistry[url]

\* register(route) -> ok | DuplicatePathError
registerResult(route) ==
  IF routeRegistry[route.path] = undefined THEN "ok" ELSE "DuplicatePathError"

\* A registry that overwrites the route already stored under the path.
registerRegistry_Overwrites(route) ==
  [routeRegistry EXCEPT ![route.path] = route]

registerRegistry(route) ==
  IF routeRegistry[route.path] = undefined
  THEN [routeRegistry EXCEPT ![route.path] = route]
  ELSE routeRegistry

(* ------------------- Authorization Gate, Middleware -------------------- *)
\* levelFor(rawExchange): the caller's level, derived from the exchange.
levelFor(req) == req.level

\* check(context): Allowed iff callerLevel >= requiredLevel.
check(context) == levelFor(context.request) >= context.authLevelForRequestedRoute

\* One middleware link: (Context) -> boolean.
runLink(kind, context) ==
  CASE kind = "gate" -> check(context)
    [] kind = "allow" -> TRUE
    [] kind = "deny" -> FALSE

\* A chain that keeps running its links after one of them rejected.
RECURSIVE runFrom_NoShortCircuit(_, _, _)
runFrom_NoShortCircuit(links, i, context) ==
  IF i > Len(links) THEN [result |-> TRUE, calls |-> <<>>]
  ELSE LET rest == runFrom_NoShortCircuit(links, i + 1, context)
       IN [result |-> runLink(links[i], context) /\ rest.result,
           calls |-> <<[op |-> "link", arg |-> i]>> \o rest.calls]

\* The calls a run of links i..n makes, and the chain's result.
RECURSIVE runFrom(_, _, _)
runFrom(links, i, context) ==
  IF i > Len(links) THEN [result |-> TRUE, calls |-> <<>>]
  ELSE IF runLink(links[i], context)
       THEN LET rest == runFrom(links, i + 1, context)
            IN [result |-> rest.result,
                calls |-> <<[op |-> "link", arg |-> i]>> \o rest.calls]
       ELSE [result |-> FALSE, calls |-> <<[op |-> "link", arg |-> i]>>]

startMiddleware(context) == runFrom(middlewares, 1, context)

(* ----------------------------- handlers -------------------------------- *)
\* The leaf handler registered for a request/response route returns a JSON
\* response of its own.
handlerPayload(route) ==
  IF route.path = "/health" THEN <<<<"status", "ok">>>>
  ELSE <<<<"room", "chat">>, <<"status", "joined">>>>

handle(route, context) == json(handlerPayload(route), 200)

(* ---------------------------- Dispatcher ------------------------------- *)
\* A Context that does not take the required level from the route.
RouteHandleContext_NoLevel(req, route) ==
  [authLevelForRequestedRoute |-> 0,
   request |-> req,
   server |-> "server",
   WebSocketDriver |-> "WebSocketDriver",
   AuthorizationDriver |-> "AuthorizationDriver",
   ServerDriverInterface |-> "ServerDriverInterface"]

RouteHandleContext(req, route) ==
  [authLevelForRequestedRoute |-> route.authLevel,
   request |-> req,
   server |-> "server",
   WebSocketDriver |-> "WebSocketDriver",
   AuthorizationDriver |-> "AuthorizationDriver",
   ServerDriverInterface |-> "ServerDriverInterface"]

call(op) == [op |-> op, arg |-> 0]

\* A request/response branch that does not look at the chain's result.
handleWebRoute_IgnoresChain(req, route) ==
  LET context == RouteHandleContext(req, route)
      res == startMiddleware(context)
  IN [res |-> handle(route, context),
      calls |-> res.calls \o <<call("handle")>>,
      contexts |-> <<context>>, handled |-> <<context>>, logged |-> <<>>]

\* A request/response branch that builds a response of its own from the
\* handler's result instead of returning it.
handleWebRoute_Rewraps(req, route) ==
  LET context == RouteHandleContext(req, route)
      res == startMiddleware(context)
  IN IF res.result = FALSE
     THEN [res |-> json(<<<<"message", "Forbidden.">>>>, 403),
           calls |-> res.calls, contexts |-> <<context>>, handled |-> <<>>,
           logged |-> <<>>]
     ELSE [res |-> json(<<<<"data", handle(route, context).body>>>>, 200),
           calls |-> res.calls \o <<call("handle")>>,
           contexts |-> <<context>>, handled |-> <<context>>, logged |-> <<>>]

\* Each operator below returns what the method returns (res) and what it
\* does on the way: the calls it makes on its collaborators in order, the
\* contexts it passes to route.handler.handle, and the records it logs.
handleWebRoute(req, route) ==
  LET context == RouteHandleContext(req, route)
      res == startMiddleware(context)
  IN IF res.result = FALSE
     THEN [res |-> json(<<<<"message", "Forbidden.">>>>, 403),
           calls |-> res.calls, contexts |-> <<context>>, handled |-> <<>>,
           logged |-> <<>>]
     ELSE [res |-> handle(route, context),
           calls |-> res.calls \o <<call("handle")>>,
           contexts |-> <<context>>, handled |-> <<context>>, logged |-> <<>>]

\* What a dispatch would hold instead of a return value if it waited for the
\* connection it handed off to end.
awaitingClose == [type |-> "awaiting close"]

\* A persistent-connection branch that waits for the connection to end
\* before it returns.
handleWebSocketRoute_AwaitsClose(req, route) ==
  LET context == RouteHandleContext(req, route)
  IN [res |-> awaitingClose,
      calls |-> <<call("handle"), call("onUpgradeSuccess")>>,
      contexts |-> <<context>>,
      handled |-> <<context>>,
      logged |-> <<info("WebSocket route " \o route.path \o " connected"),
                   info("context initialized"),
                   info("Upgraded request to websocket.")>>]

handleWebSocketRoute(req, route) ==
  LET context == RouteHandleContext(req, route)
  IN [res |-> undefined,
      calls |-> <<call("handle"), call("onUpgradeSuccess")>>,
      contexts |-> <<context>>,
      handled |-> <<context>>,
      logged |-> <<info("WebSocket route " \o route.path \o " connected"),
                   info("context initialized"),
                   info("Upgraded request to websocket.")>>]

\* A dispatcher that runs the middleware chain before it resolves the path.
bunFetchHandler_ChainBeforeLookup(req) ==
  LET route == findInRouteRegistry(req.url)
      early == startMiddleware(RouteHandleContext(req, [authLevel |-> 0]))
  IN IF route = undefined
     THEN [res |-> Response("Not Found", "text/plain;charset=UTF-8", 404),
           calls |-> early.calls, contexts |-> <<>>, handled |-> <<>>,
           logged |-> <<>>]
     ELSE IF route.type = WEB THEN handleWebRoute(req, route)
          ELSE handleWebSocketRoute(req, route)

bunFetchHandler(req) ==
  LET route == findInRouteRegistry(req.url)
  IN IF route = undefined
     THEN [res |-> Response("Not Found", "text/plain;charset=UTF-8", 404),
           calls |-> <<>>, contexts |-> <<>>, handled |-> <<>>,
           logged |-> <<>>]
     ELSE IF route.type = WEB THEN handleWebRoute(req, route)
          ELSE handleWebSocketRoute(req, route)

\* server.upgrade(req): the transport refuses a request that is not an
\* upgrade request, and may refuse or complete the handshake of one that is.
upgradeOutcomes(req) == IF req.upgrade THEN {TRUE, FALSE} ELSE {FALSE}

\* The fetch callback serve() hands to Bun.serve.
fetch(req, upgraded) ==
  IF upgraded
  THEN [res |-> undefined,
        calls |-> <<[op |-> "upgrade", arg |-> 1]>>,
        contexts |-> <<>>, handled |-> <<>>, logged |-> <<>>]
  ELSE [res |-> Response("Not Found", "text/plain;charset=UTF-8", 404),
        calls |-> <<[op |-> "upgrade", arg |-> 0]>>,
        contexts |-> <<>>, handled |-> <<>>, logged |-> <<>>]

(* ------------------------------ actions -------------------------------- *)
\* The registries a RouteDriver can hold: a route is stored under its path.
ConfiguredRegistries ==
  {r \in [Paths -> Routes \cup {undefined}] :
     \A p \in Paths : r[p] # undefined => r[p].path = p}

\* The chains a MiddlewareDriver can hold.
ConfiguredChains ==
  UNION {[1..n -> LinkKinds] : n \in 0..MaxLinks}

\* new ServerDriver(config): config supplies the RouteDriver and the
\* MiddlewareDriver, each as it was set up at startup.
Init ==
  /\ routeRegistry \in ConfiguredRegistries
  /\ registerCalls = <<>>
  /\ middlewares \in ConfiguredChains
  /\ serving = FALSE
  /\ log = <<>>
  /\ exchanges = <<>>
  /\ bundleCalls = <<>>
  /\ pending = {}
  /\ heap = <<>>
  /\ dispatches = <<>>
  /\ blocked = FALSE

serve ==
  /\ ~serving
  /\ serving' = TRUE
  /\ UNCHANGED <<routeRegistry, registerCalls, middlewares, log, exchanges,
               bundleVars, loopVars>>

record(entry, req, out) ==
  /\ exchanges' = Append(exchanges,
       [entry |-> entry, req |-> req, res |-> out.res, calls |-> out.calls,
        contexts |-> out.contexts, handled |-> out.handled,
        logged |-> out.logged])
  /\ log' = log \o out.logged

\* An exchange arrives at the listening endpoint.
Fetch(req) ==
  /\ serving
  /\ Len(exchanges) < MaxExchanges
  /\ \E upgraded \in upgradeOutcomes(req) : record("fetch", req, fetch(req, upgraded))
  /\ UNCHANGED <<routeRegistry, registerCalls, middlewares, serving,
               bundleVars, loopVars>>

\* An exchange is dispatched: bunFetchHandler(req, server).
Dispatch(req) ==
  /\ serving
  /\ Len(exchanges) < MaxExchanges
  /\ record("dispatch", req, bunFetchHandler(req))
  /\ UNCHANGED <<routeRegistry, registerCalls, middlewares, serving,
               bundleVars, loopVars>>

Next ==
  \/ serve
  \/ \E req \in Requests : Fetch(req)
  \/ \E req \in Requests : Dispatch(req)

Spec == Init /\ [][Next]_vars

(* ------------------- building the registry at startup ------------------ *)
InitRegistry ==
  /\ routeRegistry = [p \in Paths |-> undefined]
  /\ registerCalls = <<>>
  /\ middlewares = <<>>
  /\ serving = FALSE
  /\ log = <<>>
  /\ exchanges = <<>>
  /\ bundleCalls = <<>>
  /\ pending = {}
  /\ heap = <<>>
  /\ dispatches = <<>>
  /\ blocked = FALSE

\* RouteDriver.register(route), before the dispatcher serves.
Register(route) ==
  /\ ~serving
  /\ Len(registerCalls) < MaxRegisterCalls
  /\ routeRegistry' = registerRegistry(route)
  /\ registerCalls' = Append(registerCalls, <<route, registerResult(route)>>)
  /\ UNCHANGED <<middlewares, serving, log, exchanges, bundleVars, loopVars>>

NextRegistry == \E route \in Routes : Register(route)

SpecRegistry == InitRegistry /\ [][NextRegistry]_vars

(* --------------------- calls on json and getLogger --------------------- *)
JsonPayloads ==
  {<<>>,
   <<<<"status", "ok">>>>,
   <<<<"message", "Forbidden.">>>>,
   <<<<"room", "chat">>, <<"status", "joined">>>>}

Statuses == {200, 403, 404, 500}

\* A component calls json(payload, status).
Json(payload, status) ==
  /\ Len(bundleCalls) < MaxBundleCalls
  /\ bundleCalls' = Append(bundleCalls,
       [function |-> "json", receiver |-> "ServerDriverInterface",
        payload |-> payload, status |-> status,
        result |-> json(payload, status)])
  /\ UNCHANGED <<routeRegistry, registerCalls, middlewares, serving, log,
                 exchanges, loopVars>>

\* getLogger() is called on the driver, or on the bundle a Context carries.
GetLogger(receiver) ==
  /\ Len(bundleCalls) < MaxBundleCalls
  /\ bundleCalls' = Append(bundleCalls,
       [function |-> "getLogger", receiver |-> receiver,
        payload |-> <<>>, status |-> 0,
        result |-> getLogger(receiverObject(receiver))])
  /\ UNCHANGED <<routeRegistry, registerCalls, middlewares, serving, log,
                 exchanges, loopVars>>

NextBundle ==
  \/ serve
  \/ \E payload \in JsonPayloads, status \in Statuses : Json(payload, status)
  \/ \E receiver \in {"ServerDriver", "ServerDriverInterface"} : GetLogger(receiver)

SpecBundle == InitRegistry /\ [][NextBundle]_vars

(* ------------------ dispatches on the event loop ----------------------- *)
\* The chains the event-loop specification starts from.
LoopChains == {<<>>, <<"gate">>}

\* The registries it starts from: /health, if registered, a request/response
\* route and /chat, if registered, a persistent-connection route.
LoopRegistries ==
  {r \in ConfiguredRegistries :
     r["/health"].type # WEB_SOCKET /\ r["/chat"].type # WEB}

\* The exchanges that arrive: plain requests for /health, upgrade requests
\* for /chat (the dispatcher does not read the difference).
LoopRequests == {r \in Requests : r.upgrade = (r.url = "/chat")}

InitLoop ==
  /\ routeRegistry \in LoopRegistries
  /\ registerCalls = <<>>
  /\ middlewares \in LoopChains
  /\ serving = FALSE
  /\ log = <<>>
  /\ exchanges = <<>>
  /\ bundleCalls = <<>>
  /\ pending = {}
  /\ heap = <<>>
  /\ dispatches = <<>>
  /\ blocked = FALSE

\* The exchanges accepted so far.
arrivals == Cardinality(pending) + Len(dispatches)

\* The transport accepts an exchange; its dispatch is queued on the loop.
Arrive(req) ==
  /\ serving
  /\ arrivals < MaxArrivals
  /\ pending' = pending \cup {[id |-> arrivals + 1, req |-> req]}
  /\ UNCHANGED <<routeRegistry, registerCalls, middlewares, serving, log,
                 exchanges, bundleVars, heap, dispatches, blocked>>

\* A Context shared by all dispatches: one object, overwritten each time.
newContext_Shared(objects, context) ==
  IF objects = <<>> THEN <<context>> ELSE [objects EXCEPT ![1] = context]

\* const context = {...}: the object literal allocates a new object; its
\* reference is its position among the objects allocated.
newContext(objects, context) == Append(objects, context)

\* The persistent connections handed off and open (none is ever closed).
openConnections == {k \in 1..Len(dispatches) : dispatches[k].open}

\* The loop runs the dispatch of one accepted exchange, to its return:
\* bunFetchHandler is synchronous.
Run(x) ==
  /\ ~blocked
  /\ x \in pending
  /\ LET out == bunFetchHandler(x.req)
         objects == IF out.contexts = <<>> THEN heap
                    ELSE newContext(heap, out.contexts[1])
         ref == IF out.contexts = <<>> THEN 0 ELSE Len(objects)
         route == findInRouteRegistry(x.req.url)
     IN /\ heap' = objects
        /\ dispatches' = Append(dispatches,
             [id |-> x.id, req |-> x.req, context |-> ref,
              gated |-> IF route # undefined /\ route.type = WEB THEN ref ELSE 0,
              handled |-> IF out.handled = <<>> THEN 0 ELSE ref,
              open |-> \E k \in 1..Len(out.calls) : out.calls[k].op = "onUpgradeSuccess",
              openBefore |-> Cardinality(openConnections)])
        /\ blocked' = (out.res = awaitingClose)
        /\ record("dispatch", x.req, out)
  /\ pending' = pending \ {x}
  /\ UNCHANGED <<routeRegistry, registerCalls, middlewares, serving, bundleVars>>

NextLoop ==
  \/ serve
  \/ \E req \in LoopRequests : Arrive(req)
  \/ \E x \in pending : Run(x)

SpecLoop == InitLoop /\ [][NextLoop]_vars

\* The runtime calls the dispatcher for every exchange it accepted.
FairSpecLoop == SpecLoop /\ WF_vars(\E x \in pending : Run(x))

TypeOK ==
  /\ \A p \in Paths : routeRegistry[p] \in Routes \cup {undefined}
  /\ Len(middlewares) <= MaxLinks
  /\ serving \in BOOLEAN
  /\ Len(exchanges) <= MaxExchanges

(* ===================== properties of the dispatcher ==================== *)
Dispatched == {i \in 1..Len(exchanges) : exchanges[i].entry = "dispatch"}
Fetched == {i \in 1..Len(exchanges) : exchanges[i].entry = "fetch"}

\* The route an exchange's path resolves to (the registry does not change
\* once the dispatcher serves).
routeOf(e) == routeRegistry[e.req.url]

\* Whether the middleware chain rejects the exchange e made to route.
chainRejects(e, route) == ~startMiddleware(RouteHandleContext(e.req, route)).result

\* The operations an exchange called on its collaborators.
opsOf(e) == {e.calls[i].op : i \in 1..Len(e.calls)}
timesCalled(e, op) == Cardinality({i \in 1..Len(e.calls) : e.calls[i].op = op})

Forbidden(res) ==
  /\ res # undefined
  /\ res.status = 403
  /\ res.body = "{\"message\":\"Forbidden.\"}"

\* C1: a dispatch to a PERSISTENT_CONNECTION route whose middleware chain
\* rejects has no upgrade side effect: the transport's upgrade is not
\* invoked and none of handle, onUpgradeSuccess, onUpgradeFailed is called.
C1_RejectedSocketHasNoSideEffect ==
  \A i \in Dispatched :
    LET e == exchanges[i]
        route == routeOf(e)
    IN (route # undefined /\ route.type = WEB_SOCKET /\ chainRejects(e, route))
       => opsOf(e) \cap {"upgrade", "handle", "onUpgradeSuccess", "onUpgradeFailed"} = {}

\* C2: for a resolved route of either type, if the middleware chain rejects
\* the exchange, dispatch returns status 403 with body {"message":"Forbidden."}
\* and the route handler is not invoked.
C2_RejectedYieldsForbidden ==
  \A i \in Dispatched :
    LET e == exchanges[i]
        route == routeOf(e)
    IN (route # undefined /\ chainRejects(e, route))
       => /\ Forbidden(e.res)
          /\ "handle" \notin opsOf(e)
          /\ e.handled = <<>>

\* C3 as stated: for a REQUEST_RESPONSE route with required level L and a
\* caller at level c, c < L yields 403 without the handler being invoked,
\* and c >= L reaches the handler.
C3_LevelDecidesAlone ==
  \A i \in Dispatched :
    LET e == exchanges[i]
        route == routeOf(e)
    IN (route # undefined /\ route.type = WEB)
       => /\ levelFor(e.req) < route.authLevel
               => (Forbidden(e.res) /\ "handle" \notin opsOf(e))
          /\ levelFor(e.req) >= route.authLevel
               => "handle" \in opsOf(e)

hasLink(kind) == \E k \in 1..Len(middlewares) : middlewares[k] = kind

\* C3 amended: for a REQUEST_RESPONSE route with required level L and a
\* caller at level c, if the Authorization Gate is a link of the chain and
\* c < L, dispatch yields 403 and the handler is not invoked; if c >= L and
\* no other link of the chain rejects, the handler is invoked.
C3_GateInChainDecides ==
  \A i \in Dispatched :
    LET e == exchanges[i]
        route == routeOf(e)
    IN (route # undefined /\ route.type = WEB)
       => /\ (levelFor(e.req) < route.authLevel /\ hasLink("gate"))
               => (Forbidden(e.res) /\ "handle" \notin opsOf(e) /\ e.handled = <<>>)
          /\ (levelFor(e.req) >= route.authLevel /\ ~hasLink("deny"))
               => (timesCalled(e, "handle") = 1 /\ Len(e.handled) = 1)

C3_Witness ==
  \E i \in Dispatched :
    LET e == exchanges[i]
        route == routeOf(e)
    IN /\ route # undefined /\ route.type = WEB
       /\ hasLink("gate")
       /\ levelFor(e.req) < route.authLevel
       /\ Forbidden(e.res)

\* C4: dispatching a path with no entry in the registry yields status 404
\* with no middleware link, handler call or upgrade executed, and the
\* outcome does not depend on whether the exchange was a plain request or
\* an upgrade attempt.
C4_UnregisteredYieldsNotFound ==
  \A i \in Dispatched :
    LET e == exchanges[i]
    IN routeOf(e) = undefined
       => /\ e.res # undefined
          /\ e.res.status = 404
          /\ opsOf(e) = {}
          /\ e.calls = <<>>
          /\ e.handled = <<>>
          /\ e.res = Response("Not Found", "text/plain;charset=UTF-8", 404)

C4_Witness ==
  \E i \in Dispatched :
    /\ routeOf(exchanges[i]) = undefined
    /\ exchanges[i].req.upgrade
    /\ exchanges[i].res.status = 404
    /\ Len(middlewares) > 0

\* C5: through the endpoint started by serve(), a plain request to a
\* registered REQUEST_RESPONSE route whose middleware accepts receives the
\* response of that route's handler.
C5_EndpointServesWebRoute ==
  \A i \in Fetched :
    LET e == exchanges[i]
        route == routeOf(e)
    IN (~e.req.upgrade /\ route # undefined /\ route.type = WEB
          /\ ~chainRejects(e, route))
       => /\ e.res = handle(route, RouteHandleContext(e.req, route))
          /\ "handle" \in opsOf(e)

\* C6: for an exchange accepted by the listening endpoint, the transport's
\* upgrade is invoked only if the exchange's path resolves to a registered
\* PERSISTENT_CONNECTION route.
C6_UpgradeOnlyForSocketRoute ==
  \A i \in Fetched :
    LET e == exchanges[i]
        route == routeOf(e)
    IN "upgrade" \in opsOf(e) => (route # undefined /\ route.type = WEB_SOCKET)

\* C7: for a dispatch to a REQUEST_RESPONSE route whose middleware chain
\* accepts, handle is invoked exactly once, with the Context built for the
\* exchange, and dispatch returns the handler's result unmodified.
C7_HandlerResultVerbatim ==
  \A i \in Dispatched :
    LET e == exchanges[i]
        route == routeOf(e)
    IN (route # undefined /\ route.type = WEB /\ ~chainRejects(e, route))
       => /\ timesCalled(e, "handle") = 1
          /\ e.handled = <<RouteHandleContext(e.req, route)>>
          /\ e.res = handle(route, RouteHandleContext(e.req, route))

C7_Witness ==
  \E i \in Dispatched :
    LET e == exchanges[i]
        route == routeOf(e)
    IN /\ route # undefined /\ route.type = WEB
       /\ Len(middlewares) > 0
       /\ ~chainRejects(e, route)
       /\ e.res = json(<<<<"status", "ok">>>>, 200)

\* The outcome of the handshake the transport performed for an exchange:
\* "none" when upgrade was not invoked.
handshakeOf(e) ==
  IF \E k \in 1..Len(e.calls) : e.calls[k].op = "upgrade" /\ e.calls[k].arg = 1
  THEN "succeeded"
  ELSE IF "upgrade" \in opsOf(e) THEN "refused" ELSE "none"

\* C8: in a PERSISTENT_CONNECTION dispatch exactly one of onUpgradeSuccess
\* and onUpgradeFailed is invoked and it matches the outcome of the
\* handshake: onUpgradeSuccess only after a handshake that succeeded,
\* onUpgradeFailed only after one the transport refused.
C8_CallbackMatchesHandshake ==
  \A i \in Dispatched :
    LET e == exchanges[i]
        route == routeOf(e)
    IN (route # undefined /\ route.type = WEB_SOCKET)
       => /\ timesCalled(e, "onUpgradeSuccess") + timesCalled(e, "onUpgradeFailed") = 1
          /\ "onUpgradeSuccess" \in opsOf(e) => handshakeOf(e) = "succeeded"
          /\ "onUpgradeFailed" \in opsOf(e) => handshakeOf(e) = "refused"

\* The links an exchange ran, in the order it ran them.
linksRun(e) ==
  LET ran == SelectSeq(e.calls, LAMBDA c : c.op = "link")
  IN [k \in 1..Len(ran) |-> ran[k].arg]

\* C9: the links of the chain run in registration order; if link k is the
\* first to reject, links 1..k run exactly once each, in order, no later
\* link runs and the chain rejects; if no link rejects (also when the chain
\* is empty) every link runs once, in order, and the chain accepts.
C9_ChainShortCircuits ==
  \A i \in Dispatched :
    LET e == exchanges[i]
        route == routeOf(e)
    IN (route # undefined /\ route.type = WEB)
       => LET context == RouteHandleContext(e.req, route)
              n == Len(middlewares)
              rejecting == {k \in 1..n : ~runLink(middlewares[k], context)}
          IN IF rejecting = {}
             THEN /\ linksRun(e) = [k \in 1..n |-> k]
                  /\ "handle" \in opsOf(e)
             ELSE LET first == CHOOSE k \in rejecting : \A m \in rejecting : k <= m
                  IN /\ linksRun(e) = [k \in 1..first |-> k]
                     /\ "handle" \notin opsOf(e)
                     /\ Forbidden(e.res)

C9_Witness ==
  \E i \in Dispatched :
    LET e == exchanges[i]
        route == routeOf(e)
    IN /\ route # undefined /\ route.type = WEB
       /\ Len(middlewares) = 2
       /\ linksRun(e) = <<1>>
       /\ Forbidden(e.res)

(* ====================== properties of the registry ===================== *)
\* The register calls made for path p, by position.
callsFor(p) == {i \in 1..Len(registerCalls) : registerCalls[i][1].path = p}

\* C10: after any sequence of register calls, resolving a path returns the
\* route first registered at it, and NotFound for a path never registered;
\* a register call for a path already registered returns DuplicatePathError
\* (and so leaves the first route in place), any other returns ok.
C10_FirstRegistrationWins ==
  /\ \A p \in Paths :
       IF callsFor(p) = {}
       THEN findInRouteRegistry(p) = undefined
       ELSE LET first == CHOOSE i \in callsFor(p) : \A j \in callsFor(p) : i <= j
            IN findInRouteRegistry(p) = registerCalls[first][1]
  /\ \A i \in 1..Len(registerCalls) :
       registerCalls[i][2] =
         IF \E j \in 1..(i - 1) : registerCalls[j][1].path = registerCalls[i][1].path
         THEN "DuplicatePathError" ELSE "ok"

C10_Witness ==
  \E i, j \in 1..Len(registerCalls) :
    /\ i < j
    /\ registerCalls[i][1].path = registerCalls[j][1].path
    /\ registerCalls[i][1] # registerCalls[j][1]
    /\ registerCalls[j][2] = "DuplicatePathError"
    /\ findInRouteRegistry(registerCalls[i][1].path) = registerCalls[i][1]

\* C12: for a PERSISTENT_CONNECTION route, handle(context) is invoked only
\* after the upgrade handshake has been performed and has succeeded.
C12_HandleOnlyAfterHandshake ==
  \A i \in Dispatched :
    LET e == exchanges[i]
        route == routeOf(e)
    IN (route # undefined /\ route.type = WEB_SOCKET)
       => \A k \in 1..Len(e.calls) :
            e.calls[k].op = "handle"
              => \E j \in 1..(k - 1) : e.calls[j].op = "upgrade" /\ e.calls[j].arg = 1

\* C13: every Context the Dispatcher builds carries the authLevel of the
\* route resolved for the exchange and the inbound request, for both route
\* types, and the Context handed to the handler is the one built, with both
\* fields as they were built.
C13_ContextCarriesRouteLevelAndRequest ==
  \A i \in Dispatched :
    LET e == exchanges[i]
        route == routeOf(e)
    IN /\ \A k \in 1..Len(e.contexts) :
            /\ route # undefined
            /\ e.contexts[k].authLevelForRequestedRoute = route.authLevel
            /\ e.contexts[k].request = e.req
       /\ route # undefined => Len(e.contexts) = 1
       /\ \A k \in 1..Len(e.handled) :
            /\ k <= Len(e.contexts)
            /\ e.handled[k] = e.contexts[k]

C13_Witness ==
  \E i \in Dispatched :
    LET e == exchanges[i]
        route == routeOf(e)
    IN /\ route # undefined
       /\ route.type = WEB_SOCKET
       /\ route.authLevel = 1
       /\ e.req.level = 0
       /\ Len(e.handled) = 1
       /\ e.handled[1].authLevelForRequestedRoute = 1

hasRecord(e, level) == \E k \in 1..Len(e.logged) : e.logged[k].level = level

\* C14: every dispatch outcome is logged before dispatch returns: not found
\* and a middleware rejection each with an info record, an upgrade success
\* with an info record, an upgrade failure with an error record.
C14_OutcomeIsLogged ==
  \A i \in Dispatched :
    LET e == exchanges[i]
        route == routeOf(e)
    IN /\ route = undefined => hasRecord(e, "info")
       /\ Forbidden(e.res) => hasRecord(e, "info")
       /\ "onUpgradeSuccess" \in opsOf(e) => hasRecord(e, "info")
       /\ "onUpgradeFailed" \in opsOf(e) => hasRecord(e, "error")
       /\ \A k \in 1..Len(e.logged) : \E n \in 1..Len(log) : log[n] = e.logged[k]

(* =============== properties of json and of the bundle ================== *)
JsonCalls == {i \in 1..Len(bundleCalls) : bundleCalls[i].function = "json"}
GetLoggerCalls == {i \in 1..Len(bundleCalls) : bundleCalls[i].function = "getLogger"}

\* The JSON text of each payload, written out.
expectedBody(payload) ==
  CASE payload = <<>> -> "{}"
    [] payload = <<<<"status", "ok">>>> -> "{\"status\":\"ok\"}"
    [] payload = <<<<"message", "Forbidden.">>>> -> "{\"message\":\"Forbidden.\"}"
    [] payload = <<<<"room", "chat">>, <<"status", "joined">>>>
         -> "{\"room\":\"chat\",\"status\":\"joined\"}"

C17_BundleGetLoggerReturnsLogger ==
  \A i \in GetLoggerCalls :
    bundleCalls[i].receiver = "ServerDriverInterface"
      => bundleCalls[i].result = ServerDriverObject.ServerLogger

(* ================ properties of concurrent dispatches ================== *)
\* C15: each dispatch creates a Context of its own; the chain and the
\* handler of an exchange receive that Context, which holds the exchange's
\* own request and its own route's authLevel and keeps them whatever other
\* dispatches run; no Context object belongs to two dispatches.
C15_ContextIsExchangeExclusive ==
  /\ \A k \in 1..Len(dispatches) :
       LET d == dispatches[k]
           route == routeRegistry[d.req.url]
       IN /\ (d.context = 0) = (route = undefined)
          /\ d.gated \in {0, d.context}
          /\ d.handled \in {0, d.context}
          /\ d.context # 0 =>
               /\ d.context \in 1..Len(heap)
               /\ heap[d.context].request = d.req
               /\ heap[d.context].authLevelForRequestedRoute = route.authLevel
  /\ \A k, m \in 1..Len(dispatches) :
       (k # m /\ dispatches[k].context # 0)
         => dispatches[k].context # dispatches[m].context

C15_Witness ==
  \E k, m \in 1..Len(dispatches) :
    /\ k < m
    /\ dispatches[k].handled # 0
    /\ dispatches[m].handled # 0
    /\ dispatches[k].handled # dispatches[m].handled
    /\ dispatches[k].req # dispatches[m].req
    /\ dispatches[k].open

====
